---- MODULE Spec2Model ----
(***************************************************************************)
(* Model of src/data/processer/pgsql.py: the Pgsql persistence layer of    *)
(* the orc20 indexer.  The state is the content of the PostgreSQL store    *)
(* the class writes to (six tables), the aiopg engine handle, and the      *)
(* outcome of the most recent call.  Every public coroutine of the class   *)
(* is one action.  An SQL NULL is modelled as a column that is absent from *)
(* the row's domain.                                                       *)
(***************************************************************************)
EXTENDS Integers, Sequences, FiniteSets, TLC

VARIABLES
    db,        \* table name -> set of rows held by the store
    created,   \* names of the tables that exist in the store
    engine,    \* self.engine: "none" (init not called), "open", "closed"
    last,      \* the most recent call: name, arguments, outcome
    ret,       \* what the most recent call returned
    pc,        \* concurrent callers: position inside save_<entity>
    stmt       \* concurrent callers: the statement each caller has built

vars == <<db, created, engine, last, ret, pc, stmt>>

\* Longest batch handed to a batch_save_* call.
MaxBatch == 2

----------------------------------------------------------------------------
\* Schema (Pgsql.__init__)

TableNames ==
    {"event", "pending_inscriptions", "token", "balance", "otc", "otc_record"}

\* The columns of each table the model tracks: the primary key and the
\* columns the operations and queries below read.
Columns(t) ==
    CASE t = "event" -> {"id", "block_height", "block_index"}
      [] t = "pending_inscriptions" -> {"id", "inscriptions"}
      [] t = "token" -> {"id", "tick", "holders"}
      [] t = "balance" -> {"id", "available_balance", "transferable_balance"}
      [] t = "otc" -> {"id", "received"}
      [] t = "otc_record" -> {"id", "oid", "amount_in"}

\* Python-side column defaults (default=...), applied by the client when a
\* statement does not carry the column.
Default(t) ==
    CASE t = "token" -> [c \in {"holders"} |-> 0]
      [] t = "pending_inscriptions" -> [c \in {"inscriptions"} |-> <<>>]
      [] OTHER -> [c \in {} |-> 0]

\* Secondary indexes created next to each table.
IndexList(t) ==
    CASE t = "token" -> {"deployer", "inscription_id"}
      [] t = "balance" -> {"tid", "address"}
      [] t = "otc" -> {"owner", "inscription_id", "tid1", "tid2"}
      [] t = "otc_record" -> {"oid", "inscription_id", "address"}
      [] OTHER -> {}

\* The tables clear_all_tables resets, in call order.
ClearAllOrder ==
    <<"token", "balance", "pending_inscriptions", "otc", "otc_record">>

----------------------------------------------------------------------------
\* Helpers

Range(s) == {s[i] : i \in 1..Len(s)}

\* All orders in which the store may hand back a set of rows.
Orders(S) ==
    {s \in [1..Cardinality(S) -> S] : \A i, j \in 1..Cardinality(S) :
                                          i # j => s[i] # s[j]}

\* A column of a row as an optional value: <<v>>, or <<>> for NULL.
Val(row, c) == IF c \in DOMAIN row THEN <<row[c]>> ELSE <<>>

Void == [kind |-> "void", rows |-> <<>>]
Raised == [kind |-> "raise", rows |-> <<>>]
NoneValue == [kind |-> "None", rows |-> <<>>]

----------------------------------------------------------------------------
\* Statement construction: insert(table).values(values)
\*     .on_conflict_do_update(index_elements=["id"], set_={all columns})

\* The column list of the INSERT: the keys of the first entry, plus every
\* column that has a Python-side default.
StmtColumns(t, values) == DOMAIN values[1] \cup DOMAIN Default(t)

\* A later entry that lacks a listed column without a default cannot be
\* rendered: the statement fails to compile.
CompileError(t, values) ==
    \E i \in 2..Len(values) : \E c \in StmtColumns(t, values) :
        c \notin DOMAIN values[i] /\ c \notin DOMAIN Default(t)

\* The row the statement proposes for entry i (the "excluded" row): listed
\* columns take the entry's value or the default, all others are NULL.
ProposedRow(t, values, i) ==
    [c \in StmtColumns(t, values) |->
        IF c \in DOMAIN values[i] THEN values[i][c] ELSE Default(t)[c]]

excluded(t, values) == [i \in 1..Len(values) |-> ProposedRow(t, values, i)]

\* A SET clause that leaves the last data column of each table out.
set_but_one(t) ==
    Columns(t) \ {"block_index", "holders", "transferable_balance",
                  "amount_in"}

\* set_={c.name: c for c in insert_stmt.excluded}: every column of the table.
set_(t) == Columns(t)

\* DO UPDATE SET c = excluded.c for the columns of set_; others keep the
\* stored value.
UpdatedRow(t, old, new) ==
    LET keep == {c \in DOMAIN old : c \notin set_(t)}
        take == {c \in DOMAIN new : c \in set_(t)}
    IN  [c \in keep \cup take |-> IF c \in take THEN new[c] ELSE old[c]]

\* A plain INSERT that never looks for a conflicting row.
InsertOnly(t, rel, row) == rel \cup {row}

\* An UPDATE without the conflict target: the proposed row replaces the
\* whole relation.
UpdateAll(t, rel, row) == {row}

\* INSERT ... ON CONFLICT (id) DO UPDATE for one proposed row.
InsertOrUpdate(t, rel, row) ==
    IF \E old \in rel : old.id = row.id
    THEN {IF old.id = row.id THEN UpdatedRow(t, old, row) ELSE old :
             old \in rel}
    ELSE rel \cup {row}

\* A store that keeps the rows written before the statement failed.
KeepPartial(before, partial) == partial

\* A statement is atomic: when it fails, the relation is as before it.
Rollback(before, partial) == before

\* A store that lets one command update the same row twice.
NeverTwice(rows, i) == FALSE

\* PostgreSQL rejects an ON CONFLICT DO UPDATE command whose proposed rows
\* hit the same key twice (cardinality_violation).
AffectsRowTwice(rows, i) == \E j \in 1..(i - 1) : rows[j].id = rows[i].id

\* conn.execute(on_conflict_stmt): the store processes the proposed rows in
\* order; k is the number of rows it processes before it faults
\* (k = Len(rows): no fault).
RECURSIVE ExecuteRows(_, _, _, _, _, _)
ExecuteRows(t, before, rel, rows, i, k) ==
    IF i > Len(rows)
    THEN [ok |-> TRUE, rel |-> rel, error |-> "none"]
    ELSE IF i > k
    THEN [ok |-> FALSE, rel |-> Rollback(before, rel), error |-> "store"]
    ELSE IF AffectsRowTwice(rows, i)
    THEN [ok |-> FALSE, rel |-> Rollback(before, rel),
          error |-> "cardinality_violation"]
    ELSE ExecuteRows(t, before, InsertOrUpdate(t, rel, rows[i]), rows,
                     i + 1, k)

\* try: build the statement, acquire a connection, execute; except: raise.
Statement(t, values, k) ==
    IF engine # "open"
    THEN [ok |-> FALSE, rel |-> db[t], error |-> "engine"]
    ELSE IF CompileError(t, values)
    THEN [ok |-> FALSE, rel |-> db[t], error |-> "compile"]
    ELSE IF t \notin created
    THEN [ok |-> FALSE, rel |-> db[t], error |-> "store"]
    ELSE ExecuteRows(t, db[t], db[t], excluded(t, values), 1, k)

\* The body shared by every save_* / batch_save_* coroutine.
\* res is what Statement made of the values.
Upsert(op, t, values, res) ==
    /\ db' = [db EXCEPT ![t] = res.rel]
    /\ last' = [op |-> op, table |-> t, args |-> values,
                outcome |-> IF res.ok THEN "ok" ELSE "raise",
                error |-> res.error]
    /\ ret' = IF res.ok THEN Void ELSE Raised
    /\ UNCHANGED <<created, engine, pc, stmt>>

----------------------------------------------------------------------------
\* save: one action per coroutine; vars(x) is the entity's attribute dict.
\* k is the store's fault point, as in ExecuteRows.

save_token(token) ==
    \E k \in 0..1 :
        \E res \in {Statement("token", <<token>>, k)} :
            Upsert("save_token", "token", <<token>>, res)

batch_save_tokens_in_dict(token) ==
    \E k \in 0..Len(token) :
        \E res \in {Statement("token", token, k)} :
            Upsert("batch_save_tokens_in_dict", "token", token, res)

save_event(event) ==
    \E k \in 0..1 :
        \E res \in {Statement("event", <<event>>, k)} :
            Upsert("save_event", "event", <<event>>, res)

save_pending_inscription(pending_inscription) ==
    \E k \in 0..1 :
        \E res \in {Statement("pending_inscriptions",
                              <<pending_inscription>>, k)} :
            Upsert("save_pending_inscription", "pending_inscriptions",
                   <<pending_inscription>>, res)

save_balance(balance) ==
    \E k \in 0..1 :
        \E res \in {Statement("balance", <<balance>>, k)} :
            Upsert("save_balance", "balance", <<balance>>, res)

batch_save_balances(balances) ==
    \E k \in 0..Len(balances) :
        \E res \in {Statement("balance", balances, k)} :
            Upsert("batch_save_balances", "balance", balances, res)

batch_save_balances_in_dict(balances) ==
    \E k \in 0..Len(balances) :
        \E res \in {Statement("balance", balances, k)} :
            Upsert("batch_save_balances_in_dict", "balance", balances, res)

save_otc(otc) ==
    \E k \in 0..1 :
        \E res \in {Statement("otc", <<otc>>, k)} :
            Upsert("save_otc", "otc", <<otc>>, res)

save_otc_record(otc_record) ==
    \E k \in 0..1 :
        \E res \in {Statement("otc_record", <<otc_record>>, k)} :
            Upsert("save_otc_record", "otc_record", <<otc_record>>, res)

SaveOps ==
    {"save_token", "save_event", "save_pending_inscription", "save_balance",
     "save_otc", "save_otc_record"}

BatchOps ==
    {"batch_save_tokens_in_dict", "batch_save_balances",
     "batch_save_balances_in_dict"}

----------------------------------------------------------------------------
\* get

\* Why a query cannot be answered: no usable engine, or the store faults
\* (fault is the environment's choice; a missing table is a store error).
QueryError(t, fault) ==
    IF engine # "open" THEN "engine"
    ELSE IF fault \/ t \notin created THEN "store"
    ELSE "none"

\* result.fetchone(): None when no row matched, else a matching row.
FetchOne(rows) ==
    IF rows = {} THEN {NoneValue}
    ELSE {[kind |-> "row", rows |-> <<r>>] : r \in rows}

\* A lookup that swallows the exception and answers None.
SwallowingLookup(rows, error) ==
    IF error # "none" THEN {NoneValue} ELSE FetchOne(rows)

\* try: select by key, fetchone, None or the entity; except: raise.
PointLookup(rows, error) ==
    IF error # "none" THEN {Raised} ELSE FetchOne(rows)

\* The call record and return value of a read-only coroutine.
Return(op, t, args, error, result) ==
    /\ last' = [op |-> op, table |-> t, args |-> args,
                outcome |-> IF result.kind = "raise" THEN "raise" ELSE "ok",
                error |-> error]
    /\ ret' = result
    /\ UNCHANGED <<db, created, engine, pc, stmt>>

get_token(token_id) ==
    \E fault \in BOOLEAN :
        LET error == QueryError("token", fault)
            rows == {r \in db["token"] : r.id = token_id}
        IN  \E result \in PointLookup(rows, error) :
                Return("get_token", "token", <<token_id>>, error, result)

get_pending_inscription(address) ==
    \E fault \in BOOLEAN :
        LET error == QueryError("pending_inscriptions", fault)
            rows == {r \in db["pending_inscriptions"] : r.id = address}
        IN  \E result \in PointLookup(rows, error) :
                Return("get_pending_inscription", "pending_inscriptions",
                       <<address>>, error, result)

Digits == <<"0", "1", "2", "3", "4", "5", "6", "7", "8", "9">>

\* str(n) for a natural number: its decimal digits.
RECURSIVE NatToStr(_)
NatToStr(n) ==
    IF n < 10 THEN Digits[n + 1]
    ELSE NatToStr(n \div 10) \o Digits[(n % 10) + 1]

\* str(n) for an int.
IntToStr(n) == IF n < 0 THEN "-" \o NatToStr(0 - n) ELSE NatToStr(n)

\* A key built token first.
balance_id_swapped(address, token_id) ==
    IntToStr(token_id) \o "-" \o address

\* balance_id = f"{address}-{token_id}"
balance_id(address, token_id) == address \o "-" \o IntToStr(token_id)

get_balance(address, token_id) ==
    \E fault \in BOOLEAN :
        LET error == QueryError("balance", fault)
            rows == {r \in db["balance"] :
                        r.id = balance_id(address, token_id)}
        IN  \E result \in PointLookup(rows, error) :
                Return("get_balance", "balance", <<address, token_id>>,
                       error, result)

get_otc(otc_id) ==
    \E fault \in BOOLEAN :
        LET error == QueryError("otc", fault)
            rows == {r \in db["otc"] : r.id = otc_id}
        IN  \E result \in PointLookup(rows, error) :
                Return("get_otc", "otc", <<otc_id>>, error, result)

PointLookups ==
    {"get_token", "get_pending_inscription", "get_balance", "get_otc"}

\* result.fetchall(): the matching rows in whatever order the store
\* produces them.
FetchAll(rows) == Orders(rows)

get_otc_records(oid) ==
    \E fault \in BOOLEAN :
        LET error == QueryError("otc_record", fault)
            rows == {r \in db["otc_record"] : Val(r, "oid") = <<oid>>}
        IN  \E otc_records \in FetchAll(rows) :
                Return("get_otc_records", "otc_record", <<oid>>, error,
                       IF error # "none" THEN Raised
                       ELSE [kind |-> "list", rows |-> otc_records])

\* The events as fetched, unsorted.
unsorted(s) == s

\* sorted(ret_events, key=lambda x: x.block_index): a stable ascending
\* sort, each element placed after the elements whose key is not larger.
RECURSIVE sorted(_)
sorted(s) ==
    IF Len(s) = 0 THEN <<>>
    ELSE LET t == sorted(SubSeq(s, 1, Len(s) - 1))
             x == s[Len(s)]
             n == Cardinality({i \in 1..Len(t) :
                                  t[i].block_index <= x.block_index})
         IN  SubSeq(t, 1, n) \o <<x>> \o SubSeq(t, n + 1, Len(t))

get_events_by_block_height(block_height) ==
    \E fault \in BOOLEAN :
        LET error == QueryError("event", fault)
            rows == {r \in db["event"] :
                        Val(r, "block_height") = <<block_height>>}
        IN  \E events \in FetchAll(rows) :
                Return("get_events_by_block_height", "event",
                       <<block_height>>, error,
                       IF error # "none" THEN Raised
                       ELSE [kind |-> "list", rows |-> sorted(events)])

GetOps ==
    PointLookups \cup {"get_otc_records", "get_events_by_block_height"}

----------------------------------------------------------------------------
\* initialize

Call(op, ok, error) ==
    /\ last' = [op |-> op, table |-> "", args |-> <<>>,
                outcome |-> IF ok THEN "ok" ELSE "raise", error |-> error]
    /\ ret' = IF ok THEN Void ELSE Raised

\* self.engine = await create_engine(...); a failure propagates and leaves
\* self.engine as it was.
init ==
    \E fault \in BOOLEAN :
        /\ engine' = IF fault THEN engine ELSE "open"
        /\ Call("init", ~fault, IF fault THEN "store" ELSE "none")
        /\ UNCHANGED <<db, created, pc, stmt>>

\* self.engine.close(); await self.engine.wait_closed()
close ==
    \E fault \in BOOLEAN :
        /\ engine' = IF engine = "none" THEN "none" ELSE "closed"
        /\ Call("close", engine # "none" /\ ~fault,
                IF engine = "none" THEN "engine"
                ELSE IF fault THEN "store" ELSE "none")
        /\ UNCHANGED <<db, created, pc, stmt>>

\* Statements create_table / clear_table send for table t, one at a time.
NumCreateStatements(t) == 1 + Cardinality(IndexList(t))
NumClearStatements(t) == 2 + Cardinality(IndexList(t))

\* CREATE TABLE IF NOT EXISTS, then CREATE INDEX IF NOT EXISTS for each
\* index; k statements run before a fault (k = all of them: no fault).
create_table(table) ==
    \E k \in 0..NumCreateStatements(table) :
        /\ engine # "open" => k = 0
        /\ created' = IF k >= 1 THEN created \cup {table} ELSE created
        /\ Call("create_table", k = NumCreateStatements(table),
                IF engine # "open" THEN "engine"
                ELSE IF k < NumCreateStatements(table) THEN "store"
                ELSE "none")
        /\ UNCHANGED <<db, engine, pc, stmt>>

\* The store after the first k statements of clear_table(table):
\* DROP TABLE IF EXISTS ... CASCADE, CREATE TABLE IF NOT EXISTS, indexes.
ClearTableAfter(S, table, k) ==
    IF k = 0 THEN S
    ELSE [db |-> [S.db EXCEPT ![table] = {}],
          created |-> IF k >= 2 THEN S.created \cup {table}
                      ELSE S.created \ {table}]

clear_table(table) ==
    \E k \in 0..NumClearStatements(table) :
        LET S == ClearTableAfter([db |-> db, created |-> created], table, k)
        IN  /\ engine # "open" => k = 0
            /\ db' = S.db
            /\ created' = S.created
            /\ Call("clear_table", k = NumClearStatements(table),
                    IF engine # "open" THEN "engine"
                    ELSE IF k < NumClearStatements(table) THEN "store"
                    ELSE "none")
            /\ UNCHANGED <<engine, pc, stmt>>

\* The store after clear_table has completed for the first n tables of
\* ClearAllOrder.
RECURSIVE ClearTables(_, _)
ClearTables(S, n) ==
    IF n = 0 THEN S
    ELSE ClearTableAfter(ClearTables(S, n - 1), ClearAllOrder[n],
                         NumClearStatements(ClearAllOrder[n]))

\* Five clear_table calls in a row; the first one that raises ends the
\* coroutine.  j is the call that faults (past the last: none does), k the
\* statements that call ran before the fault.
clear_all_tables ==
    \E j \in 1..(Len(ClearAllOrder) + 1) :
        \E k \in 0..(IF j <= Len(ClearAllOrder)
                     THEN NumClearStatements(ClearAllOrder[j]) - 1 ELSE 0) :
            LET S1 == ClearTables([db |-> db, created |-> created], j - 1)
                S2 == IF j <= Len(ClearAllOrder)
                      THEN ClearTableAfter(S1, ClearAllOrder[j], k) ELSE S1
            IN  /\ engine # "open" => (j = 1 /\ k = 0)
                /\ db' = S2.db
                /\ created' = S2.created
                /\ Call("clear_all_tables", j > Len(ClearAllOrder),
                        IF engine # "open" THEN "engine"
                        ELSE IF j <= Len(ClearAllOrder) THEN "store"
                        ELSE "none")
                /\ UNCHANGED <<engine, pc, stmt>>

----------------------------------------------------------------------------
\* Two callers inside save_<entity> at once.  A caller builds its statement,
\* then awaits the connection and the execution of the statement; the other
\* caller may run in between.  The store executes each statement atomically.

Callers == {"c1", "c2"}

NoStmt == [op |-> "", table |-> "", values |-> <<>>, outcome |-> "none"]

\* insert_stmt = insert(table).values(vars(entity)); on_conflict_stmt = ...
BuildStatement(c, op, t, entity) ==
    /\ pc' = [pc EXCEPT ![c] = "built"]
    /\ stmt' = [stmt EXCEPT ![c] = [op |-> op, table |-> t,
                                    values |-> <<entity>>,
                                    outcome |-> "pending"]]
    /\ UNCHANGED <<db, created, engine, last, ret>>

build_save_token(c, token) ==
    /\ pc[c] = "idle"
    /\ BuildStatement(c, "save_token", "token", token)

build_save_balance(c, balance) ==
    /\ pc[c] = "idle"
    /\ BuildStatement(c, "save_balance", "balance", balance)

\* async with self.engine.acquire() as conn: await conn.execute(stmt)
execute_save(c) ==
    /\ pc[c] = "built"
    /\ \E k \in 0..1 :
        \E res \in {Statement(stmt[c].table, stmt[c].values, k)} :
        LET outcome == IF res.ok THEN "ok" ELSE "raise"
        IN  /\ db' = [db EXCEPT ![stmt[c].table] = res.rel]
            /\ stmt' = [stmt EXCEPT ![c].outcome = outcome]
            /\ last' = [op |-> stmt[c].op, table |-> stmt[c].table,
                        args |-> stmt[c].values, outcome |-> outcome,
                        error |-> res.error]
            /\ ret' = IF res.ok THEN Void ELSE Raised
    /\ pc' = [pc EXCEPT ![c] = "done"]
    /\ UNCHANGED <<created, engine>>

\* The coroutine returns (or raises) to its caller.
return_save(c) ==
    /\ pc[c] = "done"
    /\ pc' = [pc EXCEPT ![c] = "idle"]
    /\ stmt' = [stmt EXCEPT ![c] = NoStmt]
    /\ UNCHANGED <<db, created, engine, last, ret>>

----------------------------------------------------------------------------
\* Inputs

\* Non-empty batches of at most MaxBatch entries of S.
Batches(S) == UNION {[1..n -> S] : n \in 1..MaxBatch}

\* One entity of each kind, for the life cycle of the store.
SeedRow(t) ==
    CASE t = "event" -> [id |-> "e1", block_height |-> 100, block_index |-> 1]
      [] t = "pending_inscriptions" -> [id |-> "addr1", inscriptions |-> <<>>]
      [] t = "token" -> [id |-> 7, tick |-> "ordi", holders |-> 0]
      [] t = "balance" -> [id |-> "addr1-7", available_balance |-> 100,
                           transferable_balance |-> 0]
      [] t = "otc" -> [id |-> 9, received |-> 0]
      [] t = "otc_record" -> [id |-> "e1", oid |-> 9, amount_in |-> 10]

\* The ledger in steady state: every table, a few entities of each kind.
LedgerTokens == {[id |-> i, tick |-> "ordi", holders |-> 0] : i \in {7, 8}}
LedgerBalances ==
    {[id |-> "addr1-7", available_balance |-> a,
      transferable_balance |-> 100 - a] : a \in {100, 40}}
LedgerEvents == {SeedRow("event")}
LedgerPending == {SeedRow("pending_inscriptions")}
LedgerOTCs == {SeedRow("otc")}
LedgerOTCRecords ==
    {[id |-> "e1", oid |-> 9, amount_in |-> a] : a \in {10, 20}}
        \cup {[id |-> "e2", oid |-> 9, amount_in |-> 10]}

\* Dicts for the *_in_dict batch saves: the key and any subset of the other
\* columns.
TokenDict(i, D) ==
    [c \in {"id"} \cup D |->
        CASE c = "id" -> i [] c = "tick" -> "ordi" [] c = "holders" -> 5]
TokenDicts ==
    {TokenDict(7, {}), TokenDict(7, {"tick", "holders"}),
     TokenDict(8, {"tick"}), TokenDict(8, {"holders"})}
TokenObjs == {[id |-> 7, tick |-> "sats", holders |-> 0]}

BalanceObjs ==
    {[id |-> "A-1", available_balance |-> a,
      transferable_balance |-> 100 - a] : a \in {100, 40}}
        \cup {[id |-> "A-2", available_balance |-> 100,
                transferable_balance |-> 0]}
BalanceDicts ==
    {[id |-> "A-1", available_balance |-> 100, transferable_balance |-> 0],
     [id |-> "A-2", available_balance |-> 40, transferable_balance |-> 60]}
        \cup {[id |-> k, available_balance |-> 70] : k \in {"A-1", "A-2"}}

\* Events of two blocks; two events may carry the same block_index.
Events ==
    {[id |-> e, block_height |-> h, block_index |-> i] :
        e \in {"e1", "e2", "e3"}, h \in {100, 101}, i \in {1, 2}}
BlockHeights == {100, 101, 102}

\* Point lookups.
Addresses == {"addr1", "a", "a-"}
TokenIds == {7, 8, 12, 1, -1, 999999}
LookupBalances ==
    {[id |-> k, available_balance |-> 100, transferable_balance |-> 0] :
        k \in {"addr1-7", "addr1-12", "a--1"}}
LookupTokens == {[id |-> 7, tick |-> "ordi", holders |-> 0]}
LookupOTCs == {[id |-> 9, received |-> 0]}
LookupPending == {[id |-> "addr1", inscriptions |-> <<"i1">>]}

\* Concurrent saves: two values for one key of each table.
ConcTokens == {[id |-> 7, tick |-> k, holders |-> h] :
                  k \in {"ordi", "sats"}, h \in {0, 5}}
ConcBalances ==
    {[id |-> "A-1", available_balance |-> a,
      transferable_balance |-> 100 - a] : a \in {100, 40}}

----------------------------------------------------------------------------
\* Specifications

NoCall ==
    [op |-> "", table |-> "", args |-> <<>>, outcome |-> "none",
     error |-> "none"]

\* A new Pgsql object on an empty store: no engine yet, no table created.
Init ==
    /\ db = [t \in TableNames |-> {}]
    /\ created = {}
    /\ engine = "none"
    /\ last = NoCall
    /\ ret = Void
    /\ pc = [c \in Callers |-> "idle"]
    /\ stmt = [c \in Callers |-> NoStmt]

\* The life cycle of the store: engine, tables, and one entity per table.
Next ==
    \/ init
    \/ \E t \in TableNames : create_table(t)
    \/ \E t \in TableNames : clear_table(t)
    \/ clear_all_tables
    \/ save_token(SeedRow("token"))
    \/ save_event(SeedRow("event"))
    \/ save_pending_inscription(SeedRow("pending_inscriptions"))
    \/ save_balance(SeedRow("balance"))
    \/ save_otc(SeedRow("otc"))
    \/ save_otc_record(SeedRow("otc_record"))
    \/ get_events_by_block_height(100)

Spec == Init /\ [][Next]_vars

\* A provisioned store: init() and create_table() have run for every table.
Provisioned ==
    /\ db = [t \in TableNames |-> {}]
    /\ created = TableNames
    /\ engine = "open"
    /\ pc = [c \in Callers |-> "idle"]
    /\ stmt = [c \in Callers |-> NoStmt]

InitSteady == Provisioned /\ last = NoCall /\ ret = Void

\* The steady-state API on all six tables: every save_* and get_* call.
NextSteady ==
    \/ \E token \in LedgerTokens : save_token(token)
    \/ \E token \in Batches(LedgerTokens) : batch_save_tokens_in_dict(token)
    \/ \E event \in LedgerEvents : save_event(event)
    \/ \E p \in LedgerPending : save_pending_inscription(p)
    \/ \E balance \in LedgerBalances : save_balance(balance)
    \/ \E balances \in Batches(LedgerBalances) : batch_save_balances(balances)
    \/ \E balances \in Batches({SeedRow("balance")}) :
           batch_save_balances_in_dict(balances)
    \/ \E otc \in LedgerOTCs : save_otc(otc)
    \/ \E otc_record \in LedgerOTCRecords : save_otc_record(otc_record)
    \/ get_token(7)
    \/ get_pending_inscription("addr1")
    \/ get_balance("addr1", 7)
    \/ get_otc(9)
    \/ get_otc_records(9)
    \/ get_events_by_block_height(100)

SpecSteady == InitSteady /\ [][NextSteady]_vars

\* Saves and batch saves of balances, given as objects or as dicts.
InitBatch == InitSteady

NextBatch ==
    \/ \E balance \in BalanceObjs : save_balance(balance)
    \/ \E balances \in Batches(BalanceObjs) : batch_save_balances(balances)
    \/ \E balances \in Batches(BalanceDicts) :
           batch_save_balances_in_dict(balances)

SpecBatch == InitBatch /\ [][NextBatch]_vars

\* Saves and batch saves of tokens, given as objects or as dicts.
InitTokens == InitSteady

NextTokens ==
    \/ \E token \in TokenObjs : save_token(token)
    \/ \E token \in Batches(TokenDicts) : batch_save_tokens_in_dict(token)

SpecTokens == InitTokens /\ [][NextTokens]_vars

\* Events saved and re-saved in any order, and read back by block.
InitEvents == InitSteady

NextEvents ==
    \/ \E event \in Events : save_event(event)
    \/ \E h \in BlockHeights : get_events_by_block_height(h)

SpecEvents == InitEvents /\ [][NextEvents]_vars

\* Point lookups against a store whose tables exist, with an engine that
\* is opened and closed.
InitLookup ==
    /\ db = [t \in TableNames |-> {}]
    /\ created = TableNames
    /\ engine = "none"
    /\ last = NoCall
    /\ ret = Void
    /\ pc = [c \in Callers |-> "idle"]
    /\ stmt = [c \in Callers |-> NoStmt]

NextLookup ==
    \/ init
    \/ close
    \/ \E token \in LookupTokens : save_token(token)
    \/ \E p \in LookupPending : save_pending_inscription(p)
    \/ \E balance \in LookupBalances : save_balance(balance)
    \/ \E otc \in LookupOTCs : save_otc(otc)
    \/ \E token_id \in TokenIds : get_token(token_id)
    \/ \E address \in Addresses : get_pending_inscription(address)
    \/ \E address \in Addresses, token_id \in TokenIds :
           get_balance(address, token_id)
    \/ \E otc_id \in TokenIds : get_otc(otc_id)

SpecLookup == InitLookup /\ [][NextLookup]_vars

\* Two callers saving tokens and balances at the same time.
InitConc == InitSteady

NextConc ==
    \/ \E c \in Callers, token \in ConcTokens : build_save_token(c, token)
    \/ \E c \in Callers, balance \in ConcBalances :
           build_save_balance(c, balance)
    \/ \E c \in Callers : execute_save(c)
    \/ \E c \in Callers : return_save(c)

SpecConc == InitConc /\ [][NextConc]_vars

----------------------------------------------------------------------------
\* Properties

Succeeded(call) == call.outcome = "ok"

KeysOf(values) == {values[i].id : i \in 1..Len(values)}

HasDuplicateKeys(values) ==
    \E i, j \in 1..Len(values) : i < j /\ values[i].id = values[j].id

RowsWithKey(t, key) == {r \in db[t] : r.id = key}

UniqueKeys ==
    \A t \in TableNames : \A r1, r2 \in db[t] : r1.id = r2.id => r1 = r2

\* A successful single save leaves exactly the saved entity under its key.
SavedRowIsLastWrite ==
    (last.op \in SaveOps /\ Succeeded(last)) =>
        RowsWithKey(last.table, last.args[1].id) = {last.args[1]}

\* A save that repeats the previous successful save leaves the store as is.
RepeatedSave ==
    (/\ last.op \in SaveOps \cup BatchOps
     /\ Succeeded(last)
     /\ last'.op = last.op
     /\ Succeeded(last')
     /\ last'.args = last.args) => db' = db

\* C1: in every table at most one row exists per primary key after any
\* sequence of saves and batch saves; a successful save leaves one row for
\* the key, holding the saved values; and saving the same instance again
\* leaves the tables exactly as they were after the first save.
C1_UpsertIdempotent ==
    [](UniqueKeys /\ SavedRowIsLastWrite) /\ [][RepeatedSave]_vars

\* C1 witness: a balance has been saved over an earlier one with other
\* values, and a single row holds the saved values.
C1_Witness ==
    /\ last.op = "save_balance"
    /\ Succeeded(last)
    /\ last.args[1].available_balance = 40
    /\ db["balance"] = {last.args[1]}
    /\ db["token"] # {}

\* The value the caller handed in for column c of an entry: the entry's
\* value, else the column default, else NULL.
Incoming(t, entry, c) ==
    IF c \in DOMAIN entry THEN <<entry[c]>>
    ELSE IF c \in DOMAIN Default(t) THEN <<Default(t)[c]>>
    ELSE <<>>

\* C2: when a successful save or batch save targets a key that already has
\* a row, every non-key column of the stored row afterwards equals the
\* incoming value, unspecified columns taking the default or NULL.
C2_WholeRowReplace ==
    [][(last'.op \in SaveOps \cup BatchOps /\ Succeeded(last')) =>
          \A i \in 1..Len(last'.args) :
              (\E old \in db[last'.table] : old.id = last'.args[i].id) =>
                  \E r \in db'[last'.table] :
                      /\ r.id = last'.args[i].id
                      /\ \A c \in Columns(last'.table) \ {"id"} :
                            Val(r, c) = Incoming(last'.table,
                                                 last'.args[i], c)]_vars

\* C3: get_events_by_block_height(h) returns exactly the stored events of
\* block h, each once, in ascending order of block_index.
C3_EventsSortedByBlockIndex ==
    (last.op = "get_events_by_block_height" /\ Succeeded(last)) =>
        LET S == {e \in db["event"] : e.block_height = last.args[1]}
        IN  /\ ret.kind = "list"
            /\ Range(ret.rows) = S
            /\ Len(ret.rows) = Cardinality(S)
            /\ \A i, j \in 1..Len(ret.rows) :
                   i < j => ret.rows[i].block_index <= ret.rows[j].block_index

\* C3 witness: three events of one block come back, the first with a
\* smaller block_index than the last.
C3_Witness ==
    /\ last.op = "get_events_by_block_height"
    /\ Succeeded(last)
    /\ Len(ret.rows) = 3
    /\ ret.rows[1].block_index < ret.rows[3].block_index

\* The composite balance keys, written out.
ExpectedKey(address, token_id) ==
    CASE address = "addr1" /\ token_id = 7 -> "addr1-7"
      [] address = "addr1" /\ token_id = 8 -> "addr1-8"
      [] address = "addr1" /\ token_id = 12 -> "addr1-12"
      [] address = "addr1" /\ token_id = 1 -> "addr1-1"
      [] address = "addr1" /\ token_id = -1 -> "addr1--1"
      [] address = "addr1" /\ token_id = 999999 -> "addr1-999999"
      [] address = "a" /\ token_id = 7 -> "a-7"
      [] address = "a" /\ token_id = 8 -> "a-8"
      [] address = "a" /\ token_id = 12 -> "a-12"
      [] address = "a" /\ token_id = 1 -> "a-1"
      [] address = "a" /\ token_id = -1 -> "a--1"
      [] address = "a" /\ token_id = 999999 -> "a-999999"
      [] address = "a-" /\ token_id = 7 -> "a--7"
      [] address = "a-" /\ token_id = 8 -> "a--8"
      [] address = "a-" /\ token_id = 12 -> "a--12"
      [] address = "a-" /\ token_id = 1 -> "a--1"
      [] address = "a-" /\ token_id = -1 -> "a---1"
      [] address = "a-" /\ token_id = 999999 -> "a--999999"

\* C4: get_balance(address, token_id) returns the balance row whose key is
\* "{address}-{token_id}" when that row has been saved, and None otherwise.
C4_BalanceByCompositeKey ==
    (last.op = "get_balance" /\ last.error = "none") =>
        LET key == ExpectedKey(last.args[1], last.args[2])
        IN  IF RowsWithKey("balance", key) = {}
            THEN ret = NoneValue
            ELSE /\ ret.kind = "row"
                 /\ ret.rows[1] \in RowsWithKey("balance", key)

\* C4 witness: only the balance "addr1-7" is stored and
\* get_balance("addr1", 7) has returned it.
C4_Witness ==
    /\ last.op = "get_balance"
    /\ last.args = <<"addr1", 7>>
    /\ KeysOf(<<SeedRow("balance")>>) = {r.id : r \in db["balance"]}
    /\ ret.kind = "row"
    /\ ret.rows[1].id = "addr1-7"

\* C5: a batch save is all-or-nothing: when it raises, no row of any table
\* is inserted or changed; when it succeeds, every entry of the batch has
\* its row (for a batch of objects, the row is the object).
C5_BatchAtomic ==
    [][last'.op \in BatchOps =>
          /\ ~Succeeded(last') => db' = db
          /\ Succeeded(last') =>
                \A i \in 1..Len(last'.args) :
                    /\ \E r \in db'[last'.table] : r.id = last'.args[i].id
                    /\ last'.op = "batch_save_balances" =>
                           last'.args[i] \in db'[last'.table]]_vars

\* C5 witness: the store faulted in the middle of a batch of balances and
\* the call raised.
C5_Witness ==
    /\ last.op = "batch_save_balances"
    /\ Len(last.args) >= 2
    /\ ~HasDuplicateKeys(last.args)
    /\ last.error = "store"
    /\ last.outcome = "raise"
    /\ db["balance"] # {}

\* The key a point lookup searched for.
LookupKey(call) ==
    IF call.op = "get_balance"
    THEN ExpectedKey(call.args[1], call.args[2])
    ELSE call.args[1]

\* C6: a point lookup returns None, and raises nothing, exactly when the
\* store answered and holds no row for the key; it raises whenever the
\* store is unreachable or the query fails, and never otherwise.
C6_NotFoundIsNotFailure ==
    last.op \in PointLookups =>
        /\ last.error # "none" => (ret.kind = "raise" /\ ~Succeeded(last))
        /\ last.error = "none" =>
              /\ Succeeded(last)
              /\ ret.kind \in {"None", "row"}
              /\ ret.kind = "None" <=>
                     RowsWithKey(last.table, LookupKey(last)) = {}

\* C6 witness: get_token(999999) on an empty token table has returned None.
C6_Witness ==
    /\ last.op = "get_token"
    /\ last.args = <<999999>>
    /\ db["token"] = {}
    /\ ret = NoneValue
    /\ Succeeded(last)

\* Both callers have completed a successful save of different values under
\* the same key of the same table.
BothSaved ==
    /\ \A c \in Callers : pc[c] = "done" /\ stmt[c].outcome = "ok"
    /\ stmt["c1"].table = stmt["c2"].table
    /\ stmt["c1"].values[1].id = stmt["c2"].values[1].id
    /\ stmt["c1"].values # stmt["c2"].values

\* C7: after two concurrent saves of different values under one key have
\* both completed, the stored row equals the record of one of the two
\* calls in every column.
C7_NoMixedRow ==
    BothSaved =>
        \E c \in Callers :
            RowsWithKey(stmt[c].table, stmt[c].values[1].id)
                = {stmt[c].values[1]}

\* C7 witness: two balances that differ in both columns were saved
\* concurrently under one key.
C7_Witness ==
    /\ BothSaved
    /\ stmt["c1"].table = "balance"
    /\ stmt["c1"].values[1].available_balance
           # stmt["c2"].values[1].available_balance

\* C8 as claimed: no save_* or get_* call changes a stored OTC record.
C8_RecordImmutable ==
    [][\A r \in db["otc_record"] : r \in db'["otc_record"]]_vars

\* C8, amended: a stored OTC record is changed by no save_* or get_* call
\* other than a successful save_otc_record of the same id, which replaces
\* the row by the record saved.
C8_RecordChangedOnlyByOwnSave ==
    [][\A r \in db["otc_record"] :
          \/ r \in db'["otc_record"]
          \/ /\ last'.op = "save_otc_record"
             /\ Succeeded(last')
             /\ last'.args[1].id = r.id
             /\ last'.args[1] \in db'["otc_record"]]_vars

\* C8 witness: a record was saved while another record was stored, and
\* both are in the table.
C8_Witness ==
    /\ last.op = "save_otc_record"
    /\ Succeeded(last)
    /\ Cardinality(db["otc_record"]) = 2

\* C9 as claimed: a batch with a repeated key succeeds unless the store
\* faults, and the row kept for a key is the last entry with that key.
C9_LastDuplicateWins ==
    (/\ last.op \in BatchOps
     /\ HasDuplicateKeys(last.args)
     /\ last.error \notin {"store", "engine", "compile"}) =>
        /\ Succeeded(last)
        /\ \A i \in 1..Len(last.args) :
               (\A j \in (i + 1)..Len(last.args) :
                    last.args[j].id # last.args[i].id) =>
                   \E r \in RowsWithKey(last.table, last.args[i].id) :
                       \A c \in DOMAIN last.args[i] :
                           Val(r, c) = <<last.args[i][c]>>

\* C9, amended: a batch with a repeated key is rejected: the call raises
\* and no row is inserted or changed.
C9_DuplicateKeysRejected ==
    [][(last'.op \in BatchOps /\ HasDuplicateKeys(last'.args)) =>
          (~Succeeded(last') /\ db' = db)]_vars

\* C9 witness: the store rejected a batch of token dicts that named one
\* key twice.
C9_Witness ==
    /\ last.op = "batch_save_tokens_in_dict"
    /\ HasDuplicateKeys(last.args)
    /\ last.error = "cardinality_violation"

\* C10: after clear_all_tables() has completed successfully, each of the
\* six tables exists and holds no row.
C10_AllTablesEmptyAfterClear ==
    (last.op = "clear_all_tables" /\ Succeeded(last)) =>
        \A t \in TableNames : t \in created /\ db[t] = {}

====
